---- MODULE Spec2Model ----
(***************************************************************************)
(* Model of the resilient generation client of promo-backend               *)
(* (src/app/ollama_service.py): CircuitBreaker, the retry loop             *)
(* _retry_with_backoff and OllamaService.generate_text_variations; and of  *)
(* the newsletter selection select_random_promo (src/app/main.py).         *)
(*                                                                         *)
(* The specifications share the variables:                                 *)
(*   SpecBreaker  the CircuitBreaker methods called directly, any order    *)
(*   SpecRetry    _retry_with_backoff around an arbitrary operation        *)
(*   Spec         generate_text_variations, one caller at a time           *)
(*   SpecCancel   generate_text_variations in a task that may be cancelled *)
(*   SpecShared   two tasks calling generate_text_variations on one client *)
(*   SpecParse    _generate_text_internal on any answer of the model       *)
(*   SpecSelect   select_random_promo on any offers and draw               *)
(***************************************************************************)
EXTENDS Integers, Sequences, FiniteSets, TLC

VARIABLES
    circuit_breaker,   \* OllamaService.circuit_breaker: the CircuitBreaker fields
    now,               \* the value time.time() returns, in seconds
    call,              \* per caller: the position and locals of its coroutine
    last,              \* history: the latest direct CircuitBreaker method call
    failRun,           \* history: consecutive record_failure calls, first one in CLOSED
    succRun,           \* history: consecutive record_success calls, first one in HALF_OPEN
    cancelled,         \* history: the number of calls cancelled so far
    parse,             \* a response of the model and what validation makes of it
    promo,             \* a run of select_random_promo: its inputs and its response
    jobs               \* promo_generation_jobs: the latest text jobs, as far as counted

vars == <<circuit_breaker, now, call, last, failRun, succRun, cancelled, parse, promo, jobs>>

\* the variables the generation client does not touch
selection == <<parse, promo>>

----------------------------------------------------------------------------
(* Program constants                                                       *)

CLOSED == "closed"
OPEN == "open"
HALF_OPEN == "half_open"
\* None, as the value of last_failure_time before any failure (times are >= 0)
None == -1

failure_threshold == 5
timeout == 60
success_threshold == 2
max_retries == 4
base_delay == 1

----------------------------------------------------------------------------
(* Bounds of the model                                                     *)

\* the clock stops advancing here
MaxTime == 125
\* direct record_failure calls stop once failure_count reaches this
MaxFailureCount == 7

\* the longest list of variations validation is tried on
MaxItems == 2

\* the most offers eligible at once
MaxOffers == 3
\* rand is drawn in steps of 1 / DrawScale
DrawScale == 2

\* cancellations stop after this many
MaxCancelled == 1

\* no request is served once this many text jobs in a row have failed
MaxFailedJobs == 6

\* the amounts the clock advances by between two operations
TickSteps == {timeout \div 2, timeout - 1}

Min(a, b) == IF a < b THEN a ELSE b

----------------------------------------------------------------------------
(* CircuitBreaker                                                          *)

\* CircuitBreaker.__init__
CircuitBreakerInit ==
    [failure_count |-> 0, success_count |-> 0,
     last_failure_time |-> None, state |-> CLOSED]

\* record_success leaving failure_count as it is
record_success_keeping(cb) ==
    IF cb.state = HALF_OPEN
    THEN LET b2 == [cb EXCEPT !.success_count = @ + 1] IN
         IF b2.success_count >= success_threshold
         THEN [b2 EXCEPT !.state = CLOSED, !.success_count = 0, !.failure_count = 0]
         ELSE b2
    ELSE cb

\* record_success closing the circuit with success_count as it stands
record_success_carrying(cb) ==
    LET b1 == [cb EXCEPT !.failure_count = 0] IN
    IF b1.state = HALF_OPEN
    THEN LET b2 == [b1 EXCEPT !.success_count = @ + 1] IN
         IF b2.success_count >= success_threshold
         THEN [b2 EXCEPT !.state = CLOSED]
         ELSE b2
    ELSE b1

\* CircuitBreaker.record_success
record_success(cb) ==
    LET b1 == [cb EXCEPT !.failure_count = 0] IN
    IF b1.state = HALF_OPEN
    THEN LET b2 == [b1 EXCEPT !.success_count = @ + 1] IN
         IF b2.success_count >= success_threshold
         THEN [b2 EXCEPT !.state = CLOSED, !.success_count = 0]
         ELSE b2
    ELSE b1

\* record_failure opening the circuit one failure late (> for >=)
record_failure_late(cb, t) ==
    LET b1 == [cb EXCEPT !.failure_count = @ + 1,
                         !.success_count = 0,
                         !.last_failure_time = t] IN
    IF b1.state = CLOSED
    THEN IF b1.failure_count > failure_threshold
         THEN [b1 EXCEPT !.state = OPEN]
         ELSE b1
    ELSE IF b1.state = HALF_OPEN
         THEN [b1 EXCEPT !.state = OPEN]
         ELSE b1

\* record_failure that leaves a HALF_OPEN circuit half open
record_failure_no_reopen(cb, t) ==
    LET b1 == [cb EXCEPT !.failure_count = @ + 1,
                         !.success_count = 0,
                         !.last_failure_time = t] IN
    IF b1.state = CLOSED
    THEN IF b1.failure_count >= failure_threshold
         THEN [b1 EXCEPT !.state = OPEN]
         ELSE b1
    ELSE b1

\* CircuitBreaker.record_failure; t is what time.time() returns
record_failure(cb, t) ==
    LET b1 == [cb EXCEPT !.failure_count = @ + 1,
                         !.success_count = 0,
                         !.last_failure_time = t] IN
    IF b1.state = CLOSED
    THEN IF b1.failure_count >= failure_threshold
         THEN [b1 EXCEPT !.state = OPEN]
         ELSE b1
    ELSE IF b1.state = HALF_OPEN
         THEN [b1 EXCEPT !.state = OPEN]
         ELSE b1

\* can_proceed still denying when exactly timeout seconds have elapsed (> for >=)
can_proceed_strict(cb, t) ==
    IF cb.state = CLOSED THEN [ret |-> TRUE, cb |-> cb]
    ELSE IF cb.state = HALF_OPEN THEN [ret |-> TRUE, cb |-> cb]
    ELSE IF cb.last_failure_time = None THEN [ret |-> TRUE, cb |-> cb]
    ELSE IF t - cb.last_failure_time > timeout
         THEN [ret |-> TRUE,
               cb |-> [cb EXCEPT !.state = HALF_OPEN, !.success_count = 0]]
         ELSE [ret |-> FALSE, cb |-> cb]

\* can_proceed stamping last_failure_time when it denies
can_proceed_stamping(cb, t) ==
    IF cb.state = CLOSED THEN [ret |-> TRUE, cb |-> cb]
    ELSE IF cb.state = HALF_OPEN THEN [ret |-> TRUE, cb |-> cb]
    ELSE IF cb.last_failure_time = None THEN [ret |-> TRUE, cb |-> cb]
    ELSE IF t - cb.last_failure_time >= timeout
         THEN [ret |-> TRUE,
               cb |-> [cb EXCEPT !.state = HALF_OPEN, !.success_count = 0]]
         ELSE [ret |-> FALSE, cb |-> [cb EXCEPT !.last_failure_time = t]]

\* CircuitBreaker.can_proceed; t is what time.time() returns.
\* ret is the value returned, cb the breaker afterwards.
can_proceed(cb, t) ==
    IF cb.state = CLOSED THEN [ret |-> TRUE, cb |-> cb]
    ELSE IF cb.state = HALF_OPEN THEN [ret |-> TRUE, cb |-> cb]
    ELSE IF cb.last_failure_time = None THEN [ret |-> TRUE, cb |-> cb]
    ELSE IF t - cb.last_failure_time >= timeout
         THEN [ret |-> TRUE,
               cb |-> [cb EXCEPT !.state = HALF_OPEN, !.success_count = 0]]
         ELSE [ret |-> FALSE, cb |-> cb]

\* a failure has been recorded and fewer than timeout seconds have passed since
WithinTimeout(cb, t) ==
    /\ cb.last_failure_time # None
    /\ t - cb.last_failure_time < timeout

----------------------------------------------------------------------------
(* Exceptions and results                                                  *)

\* the substrings of a lower-cased exception message the code looks for
MsgKeywords == {"timeout", "429", "rate limit", "network", "connection", "5"}

\* An exception: its class, what its message says, the keywords the message
\* contains, and (history) the number of the invocation of func that raised
\* it, 0 when it was raised outside func.
Exc(cls, msg, kw, at) ==
    [kind |-> "raise", cls |-> cls, msg |-> msg, kw |-> kw, at |-> at, value |-> <<>>]

\* A message: its text and the index it cites, None when it cites none
Msg(text) == [text |-> text, index |-> None]
MsgAt(text, i) == [text |-> text, index |-> i]

\* A value returned
Ret(v) ==
    [kind |-> "return", cls |-> "", msg |-> Msg(""), kw |-> {}, at |-> 0, value |-> v]

NoResult ==
    [kind |-> "none", cls |-> "", msg |-> Msg(""), kw |-> {}, at |-> 0, value |-> <<>>]

\* asyncio.CancelledError, raised in a coroutine suspended in an await when
\* its task is cancelled
CancelledError == Exc("CancelledError", Msg(""), {}, 0)

\* The classes that do not derive from Exception, which `except Exception`
\* lets through: asyncio.CancelledError derives from BaseException.
BaseExceptions == {"CancelledError"}

\* The error classes as the specification words them (section 4.2): the
\* non-retryable classes, and the errors described as timeout, network,
\* connection or 5xx.
SaidNonRetryable ==
    {"OllamaRateLimitError", "OllamaCircuitBreakerError", "OllamaJSONParseError"}
SaidRetryable(o) ==
    /\ o.kind = "raise"
    /\ o.cls \notin SaidNonRetryable
    /\ o.kw \cap {"timeout", "network", "connection", "5"} # {}
SaidUnrecognised(o) ==
    /\ o.kind = "raise"
    /\ o.cls \notin SaidNonRetryable
    /\ o.kw \cap {"timeout", "network", "connection", "5"} = {}

\* The request constraints as the specification words them (section 4.3):
\* offer name, description and destination present and not blank, tone and
\* length from the enumerations, 1 to 30 variations.
SaidInvalid(req) ==
    \/ req.offer_name \in {"", " ", "  "}
    \/ req.offer_description \in {"", " ", "  "}
    \/ req.destination_url \in {"", " ", "  "}
    \/ req.tone \notin {"professional", "casual", "urgent", "friendly", "exciting"}
    \/ req.length_category \notin {"short", "medium", "long"}
    \/ req.num_variations < 1
    \/ req.num_variations > 30

----------------------------------------------------------------------------
(* OllamaService._retry_with_backoff                                       *)

RECURSIVE Pow2(_)
Pow2(n) == IF n = 0 THEN 1 ELSE 2 * Pow2(n - 1)

\* the except clause of line 527
NonRetryable == {"OllamaRateLimitError", "OllamaCircuitBreakerError", "OllamaJSONParseError"}

\* line 534
is_retryable(e) == e.kw \cap {"timeout", "network", "connection", "5"} # {}

\* retry_body with a linear backoff
retry_body_linear(attempt, o) ==
    IF o.kind = "return" THEN [act |-> "return", delay |-> 0]
    ELSE IF o.cls \in NonRetryable THEN [act |-> "raise", delay |-> 0]
    ELSE IF ~is_retryable(o) \/ attempt = max_retries - 1
         THEN [act |-> "raise", delay |-> 0]
         ELSE [act |-> "sleep", delay |-> base_delay * (attempt + 1)]

\* retry_body without the except clause for the non-retryable classes
retry_body_no_classes(attempt, o) ==
    IF o.kind = "return" THEN [act |-> "return", delay |-> 0]
    ELSE IF ~is_retryable(o) \/ attempt = max_retries - 1
         THEN [act |-> "raise", delay |-> 0]
         ELSE [act |-> "sleep", delay |-> base_delay * Pow2(attempt)]

\* retry_body retrying every error outside the non-retryable classes
retry_body_retry_any(attempt, o) ==
    IF o.kind = "return" THEN [act |-> "return", delay |-> 0]
    ELSE IF o.cls \in NonRetryable THEN [act |-> "raise", delay |-> 0]
    ELSE IF attempt = max_retries - 1
         THEN [act |-> "raise", delay |-> 0]
         ELSE [act |-> "sleep", delay |-> base_delay * Pow2(attempt)]

\* retry_body sleeping after the last attempt as after the others
retry_body_no_last(attempt, o) ==
    IF o.kind = "return" THEN [act |-> "return", delay |-> 0]
    ELSE IF o.cls \in NonRetryable THEN [act |-> "raise", delay |-> 0]
    ELSE IF ~is_retryable(o)
         THEN [act |-> "raise", delay |-> 0]
         ELSE [act |-> "sleep", delay |-> base_delay * Pow2(attempt)]

\* One pass of the loop body after func has returned or raised o, with loop
\* variable attempt: "return" the value, "raise" the exception, or "sleep"
\* for delay seconds and go round again.
retry_body(attempt, o) ==
    IF o.kind = "return" THEN [act |-> "return", delay |-> 0]
    ELSE IF o.cls \in NonRetryable THEN [act |-> "raise", delay |-> 0]
    ELSE IF ~is_retryable(o) \/ attempt = max_retries - 1
         THEN [act |-> "raise", delay |-> 0]
         ELSE [act |-> "sleep", delay |-> base_delay * Pow2(attempt)]

----------------------------------------------------------------------------
(* Callers                                                                 *)

Callers == {"c1"}

\* pc: "idle" (not called), "attempt" (about to await func), "sleep" (in
\* asyncio.sleep(delay)), "done" (returned or raised: result).
\* entry: "retry" for a direct _retry_with_backoff call, "generate" for
\* generate_text_variations.  attempt, delay, e: the loop's locals (e is the
\* exception caught last).
\* History: invocations (func calls made), sleeps (delays slept, in order),
\* all_retryable (every invocation so far raised a SaidRetryable error),
\* n_can_proceed, n_record_success, n_record_failure (breaker calls made),
\* fc0 (failure_count when the call began), said_invalid (the arguments break
\* a constraint of the specification, section 4.3), num_variations (the
\* argument), open_invocations (func calls made while the breaker was OPEN),
\* delivered (the items of the model's latest answer when it was a well-formed
\* list, none otherwise).
CallInit ==
    [pc |-> "idle", entry |-> "none", attempt |-> 0, delay |-> 0,
     e |-> NoResult, result |-> NoResult,
     invocations |-> 0, sleeps |-> <<>>, all_retryable |-> TRUE,
     n_can_proceed |-> 0, n_record_success |-> 0, n_record_failure |-> 0,
     fc0 |-> 0, said_invalid |-> FALSE, num_variations |-> 0,
     open_invocations |-> 0, delivered |-> <<>>]

(* OllamaService._generate_text_internal                                   *)

\* Parsed JSON: json.loads fails ("invalid"), or yields a list, a dict (fields:
\* key -> value), a string (s: its characters) or anything else ("scalar": a
\* number, true, false or null).
JInvalid == [t |-> "invalid", items |-> <<>>, fields |-> <<>>, s |-> ""]
JScalar == [t |-> "scalar", items |-> <<>>, fields |-> <<>>, s |-> ""]
JStr(s) == [t |-> "str", items |-> <<>>, fields |-> <<>>, s |-> s]
JList(items) == [t |-> "list", items |-> items, fields |-> <<>>, s |-> ""]
JDict(fields) == [t |-> "dict", items |-> <<>>, fields |-> fields, s |-> ""]

\* The order in which the text of a dict spells its keys
TextOrder == <<"texts", "results", "variations", "items">>

\* the text of l begins with "[" and "{", ends with "}" and "]"
Opens(l) == l.t = "list" /\ Len(l.items) >= 1 /\ l.items[1].t = "dict"
Closes(l) == l.t = "list" /\ Len(l.items) >= 1 /\ l.items[Len(l.items)].t = "dict"

\* Lines 861-886 on a content that spells the JSON value v, inside a ```json
\* fence when fenced: what json.loads(json_str) yields.  The pattern of
\* strategy 2 matches from the first "[" that a "{" follows to the first "}"
\* that a "]" follows; the dicts inside a list hold no dict or list, and no
\* string holds a bracket or a fence.
json_str(fenced, v) ==
    IF fenced \/ v.t # "dict" THEN v
    ELSE LET keys == SelectSeq(TextOrder, LAMBDA k : k \in DOMAIN v.fields)
             from == {i \in 1..Len(keys) : Opens(v.fields[keys[i]])}
         IN IF from = {} THEN v
            ELSE LET i == CHOOSE j \in from : \A k \in from : j <= k IN
                 IF Closes(v.fields[keys[i]]) THEN v.fields[keys[i]]
                 ELSE IF \E j \in (i + 1)..Len(keys) : Closes(v.fields[keys[j]])
                      THEN JInvalid
                      ELSE v

\* unwrap looking for 'texts' before 'variations'
unwrap_texts_first(v) ==
    IF v.t = "dict"
    THEN IF "texts" \in DOMAIN v.fields THEN v.fields["texts"]
         ELSE IF "variations" \in DOMAIN v.fields THEN v.fields["variations"]
         ELSE IF "results" \in DOMAIN v.fields THEN v.fields["results"]
         ELSE v
    ELSE v

\* lines 893-899: a dict wrapping the array under a known key
unwrap(v) ==
    IF v.t = "dict"
    THEN IF "variations" \in DOMAIN v.fields THEN v.fields["variations"]
         ELSE IF "texts" \in DOMAIN v.fields THEN v.fields["texts"]
         ELSE IF "results" \in DOMAIN v.fields THEN v.fields["results"]
         ELSE v
    ELSE v

\* lines 919-929: what is wrong with variation var, "" when nothing is
variation_error(var) ==
    IF var.t # "dict" THEN "is not a dictionary"
    ELSE IF "text" \notin DOMAIN var.fields THEN "missing 'text' field"
    ELSE ""

\* with_cta putting the default in place of any cta
with_cta_always(var) ==
    [var EXCEPT !.fields = ("cta" :> JStr("Learn More")) @@
                              [k \in DOMAIN var.fields \ {"cta"} |-> var.fields[k]]]

\* lines 931-933
with_cta(var) ==
    IF "cta" \notin DOMAIN var.fields
    THEN [var EXCEPT !.fields = ("cta" :> JStr("Learn More")) @@ var.fields]
    ELSE var

\* validate_variations refusing fewer variations than were asked for
validate_variations_exact(variations, num_variations, at) ==
    IF variations.t # "list"
    THEN Exc("OllamaJSONParseError", Msg("Expected list of variations"), {}, at)
    ELSE IF Len(variations.items) < num_variations
    THEN Exc("OllamaJSONParseError", Msg("Received too few variations"), {}, at)
    ELSE LET bad == {i \in 1..Len(variations.items) :
                        variation_error(variations.items[i]) # ""} IN
         IF bad # {}
         THEN LET i == CHOOSE j \in bad : \A k \in bad : j <= k IN
              Exc("OllamaJSONParseError",
                  MsgAt(variation_error(variations.items[i]), i - 1), {}, at)
         ELSE Ret([i \in 1..Len(variations.items) |-> with_cta(variations.items[i])])

\* lines 905-937: index is the 0-based position of the first bad variation;
\* num_variations, the number asked for, is not looked at
validate_variations(variations, num_variations, at) ==
    IF variations.t # "list"
    THEN Exc("OllamaJSONParseError", Msg("Expected list of variations"), {}, at)
    ELSE IF Len(variations.items) = 0
    THEN Exc("OllamaJSONParseError", Msg("Received empty list of variations"), {}, at)
    ELSE LET bad == {i \in 1..Len(variations.items) :
                        variation_error(variations.items[i]) # ""} IN
         IF bad # {}
         THEN LET i == CHOOSE j \in bad : \A k \in bad : j <= k IN
              Exc("OllamaJSONParseError",
                  MsgAt(variation_error(variations.items[i]), i - 1), {}, at)
         ELSE Ret([i \in 1..Len(variations.items) |-> with_cta(variations.items[i])])

\* What client.chat does: raise an exception whose lower-cased message holds
\* the keywords kw, or answer with content from which the three extraction
\* strategies and json.loads produce parsed.
ChatError(kw) == [type |-> "error", kw |-> kw, parsed |-> JInvalid]
ChatContent(parsed) == [type |-> "content", kw |-> {}, parsed |-> parsed]

\* lines 827-965; at numbers the invocation
_generate_text_internal(resp, num_variations, at) ==
    IF resp.type = "error"
    THEN IF "timeout" \in resp.kw
         THEN Exc("OllamaTimeoutError", Msg("Text generation timed out"), resp.kw, at)
         ELSE IF "429" \in resp.kw \/ "rate limit" \in resp.kw
         THEN Exc("OllamaRateLimitError", Msg("Ollama API rate limit exceeded"),
                  resp.kw \cup {"rate limit"}, at)
         ELSE Exc("OllamaAPIError", Msg("Ollama API call failed"), resp.kw, at)
    ELSE IF resp.parsed.t = "invalid"
         THEN Exc("OllamaJSONParseError", Msg("Failed to parse Ollama response as JSON"),
                  {}, at)
         ELSE validate_variations(unwrap(resp.parsed), num_variations, at)

\* A well-formed answer as the specification words it (section 4.4): a list,
\* not empty, of records that each hold a body text, a non-empty string.
SaidWellFormedItem(var) ==
    /\ var.t = "dict"
    /\ "text" \in DOMAIN var.fields
    /\ var.fields["text"].t = "str"
    /\ var.fields["text"].s # ""
SaidWellFormed(v) ==
    /\ v.t = "list"
    /\ Len(v.items) >= 1
    /\ \A i \in 1..Len(v.items) : SaidWellFormedItem(v.items[i])

----------------------------------------------------------------------------
(* OllamaService.generate_text_variations: parameter validation            *)

TextTone == {"professional", "casual", "urgent", "friendly", "exciting"}
TextLength == {"short", "medium", "long"}

\* str.strip on the strings of the model
strip(s) == IF s \in {" ", "  "} THEN "" ELSE s

\* not s or not s.strip()
blank(s) == s = "" \/ strip(s) = ""

\* validate_request without the upper limit on num_variations
validate_request_no_limit(req) ==
    IF blank(req.offer_name) THEN "offer_name is required and cannot be empty"
    ELSE IF blank(req.offer_description)
    THEN "offer_description is required and cannot be empty"
    ELSE IF blank(req.destination_url)
    THEN "destination_url is required and cannot be empty"
    ELSE IF req.num_variations < 1
    THEN "num_variations must be between 1 and 30"
    ELSE IF req.tone \notin TextTone THEN "Invalid tone"
    ELSE IF req.length_category \notin TextLength THEN "Invalid length_category"
    ELSE ""

\* lines 646-670: the message of the ValueError raised, "" when none is
validate_request(req) ==
    IF blank(req.offer_name) THEN "offer_name is required and cannot be empty"
    ELSE IF blank(req.offer_description)
    THEN "offer_description is required and cannot be empty"
    ELSE IF blank(req.destination_url)
    THEN "destination_url is required and cannot be empty"
    ELSE IF req.num_variations < 1 \/ req.num_variations > 30
    THEN "num_variations must be between 1 and 30"
    ELSE IF req.tone \notin TextTone THEN "Invalid tone"
    ELSE IF req.length_category \notin TextLength THEN "Invalid length_category"
    ELSE ""

----------------------------------------------------------------------------
(* select_random_promo (src/app/main.py)                                   *)

\* line 355; eligible_offers is the list of rows, each with an id and a weight
RECURSIVE total_weight(_)
total_weight(eligible_offers) ==
    IF eligible_offers = <<>> THEN 0
    ELSE Head(eligible_offers).weight + total_weight(Tail(eligible_offers))

\* walk selecting on rand < cumulative_weight
RECURSIVE walk_strict(_, _, _, _)
walk_strict(eligible_offers, rand, i, cumulative_weight) ==
    IF i > Len(eligible_offers) THEN 0
    ELSE LET cw == cumulative_weight + eligible_offers[i].weight IN
         IF rand < cw * DrawScale THEN i
         ELSE walk_strict(eligible_offers, rand, i + 1, cw)

\* lines 358-365, from the i-th offer on with cumulative_weight summed so far:
\* the position of the offer the loop selects, 0 when it ends with
\* selected_offer still None.  rand counts steps of 1 / DrawScale.
RECURSIVE walk(_, _, _, _)
walk(eligible_offers, rand, i, cumulative_weight) ==
    IF i > Len(eligible_offers) THEN 0
    ELSE LET cw == cumulative_weight + eligible_offers[i].weight IN
         IF rand <= cw * DrawScale THEN i
         ELSE walk(eligible_offers, rand, i + 1, cw)

\* selected_offer falling back to the last offer
selected_offer_last(eligible_offers, rand) ==
    LET i == walk(eligible_offers, rand, 1, 0) IN
    IF i = 0 THEN Len(eligible_offers) ELSE i

\* lines 358-371: the position of selected_offer in eligible_offers
selected_offer(eligible_offers, rand) ==
    LET i == walk(eligible_offers, rand, 1, 0) IN
    IF i = 0 THEN 1 ELSE i

\* the JSONResponse of lines 328-338 and 399-409
Unavailable(message) ==
    [status_code |-> 503, offer_id |-> None, variation_id |-> None,
     message |-> message]

\* select_random_promo answering with the offer when it has no approved text
select_random_promo_unchecked(eligible_offers, rand, unapproved) ==
    IF eligible_offers = <<>> THEN Unavailable("No active offers available")
    ELSE LET offer == eligible_offers[selected_offer(eligible_offers, rand)] IN
         [status_code |-> 200, offer_id |-> offer.id,
          variation_id |-> offer.id, message |-> ""]

\* lines 326-474: the response, given the rows of the first query, the draw,
\* and the id of the one offer (None: no offer) that has no approved text
\* left when the second query runs.  The variation of an offer is numbered as
\* the offer.
select_random_promo(eligible_offers, rand, unapproved) ==
    IF eligible_offers = <<>> THEN Unavailable("No active offers available")
    ELSE LET offer == eligible_offers[selected_offer(eligible_offers, rand)]
             text_variations == IF offer.id = unapproved THEN <<>>
                                ELSE <<[id |-> offer.id]>>
         IN IF text_variations = <<>>
            THEN Unavailable("Selected offer has no approved content")
            ELSE [status_code |-> 200, offer_id |-> offer.id,
                  variation_id |-> text_variations[1].id, message |-> ""]

(* The CircuitBreaker methods called directly (SpecBreaker)                *)

\* failures: the record_failure calls made on the breaker since it was last
\* not CLOSED, counted up to failure_threshold
NoCall == [op |-> "none", prev |-> "none", pre |-> CircuitBreakerInit,
           t |-> 0, ret |-> TRUE, failures |-> 0]

Record(op, ret) ==
    [op |-> op, prev |-> last.op, pre |-> circuit_breaker, t |-> now, ret |-> ret,
     failures |-> IF circuit_breaker.state # CLOSED THEN 0
                  ELSE IF op = "record_failure"
                       THEN Min(last.failures + 1, failure_threshold)
                       ELSE last.failures]

Idle == \A c \in Callers : call[c].pc = "idle"

RecordSuccess ==
    /\ Idle
    /\ circuit_breaker' = record_success(circuit_breaker)
    /\ last' = Record("record_success", TRUE)
    /\ failRun' = 0
    /\ succRun' = IF succRun > 0 \/ circuit_breaker.state = HALF_OPEN
                  THEN Min(succRun + 1, success_threshold)
                  ELSE 0
    /\ UNCHANGED <<now, call, cancelled, selection, jobs>>

RecordFailure ==
    /\ Idle
    /\ circuit_breaker.failure_count < MaxFailureCount
    /\ circuit_breaker' = record_failure(circuit_breaker, now)
    /\ last' = Record("record_failure", TRUE)
    /\ failRun' = IF failRun > 0 \/ circuit_breaker.state = CLOSED
                  THEN Min(failRun + 1, failure_threshold)
                  ELSE 0
    /\ succRun' = 0
    /\ UNCHANGED <<now, call, cancelled, selection, jobs>>

CanProceed ==
    /\ Idle
    /\ LET r == can_proceed(circuit_breaker, now) IN
       /\ circuit_breaker' = r.cb
       /\ last' = Record("can_proceed", r.ret)
    /\ UNCHANGED <<now, call, failRun, succRun, cancelled, selection, jobs>>

\* time passes between two operations
Tick ==
    \E d \in TickSteps :
       /\ \A c \in Callers : call[c].pc # "done"
       /\ now + d <= MaxTime
       /\ now' = now + d
       /\ UNCHANGED <<circuit_breaker, call, last, failRun, succRun, cancelled, selection, jobs>>

----------------------------------------------------------------------------
(* Inputs                                                                  *)

GoodRequest ==
    [offer_name |-> "Sale", offer_description |-> "Half price",
     destination_url |-> "https://example.com/sale", offer_type |-> "affiliate",
     tone |-> "professional", length_category |-> "medium", num_variations |-> 3]

Requests ==
    {GoodRequest,
     [GoodRequest EXCEPT !.offer_type = "donation", !.tone = "exciting",
                         !.length_category = "short", !.num_variations = 30],
     [GoodRequest EXCEPT !.offer_name = ""],
     [GoodRequest EXCEPT !.offer_name = "  "],
     [GoodRequest EXCEPT !.offer_description = " "],
     [GoodRequest EXCEPT !.destination_url = ""],
     [GoodRequest EXCEPT !.num_variations = 0],
     [GoodRequest EXCEPT !.num_variations = 31],
     [GoodRequest EXCEPT !.tone = "angry"],
     [GoodRequest EXCEPT !.length_category = "tiny"]}

Full == JDict(("text" :> JStr("A")) @@ ("cta" :> JStr("Go")))
NoCta == JDict(("text" :> JStr("A")))
NoText == JDict(("cta" :> JStr("Go")))

Responses ==
    {ChatError(kw) : kw \in {{}, {"timeout"}, {"5"}, {"429"}, {"rate limit"},
                             {"timeout", "429"}}}
    \cup
    {ChatContent(v) : v \in {JInvalid, JScalar, JList(<<>>),
                             JList(<<Full>>), JList(<<NoCta, Full>>),
                             JList(<<Full, NoText>>), JList(<<JScalar>>),
                             JDict(("variations" :> JList(<<NoCta>>))),
                             JDict(("items" :> JList(<<Full>>)))}}

\* The answers validation is tried on: lists of up to MaxItems elements, each
\* a non-dict or a dict whose text and cta are each absent, a string (empty
\* or not) or, for text, not a string; such lists under an envelope key or
\* another key; and answers that are no list at all.
Optional(key, values) == {<<>>} \cup {key :> v : v \in values}

Variations ==
    {JScalar} \cup
    {JDict(t @@ c) : t \in Optional("text", {JStr("A"), JStr(""), JScalar}),
                     c \in Optional("cta", {JStr("Go"), JStr("")})}

VariationLists ==
    UNION {[1..n -> Variations] : n \in 0..MaxItems}

ParseInputs ==
    {JInvalid, JScalar, JStr("A")}
    \cup {JList(l) : l \in VariationLists}
    \cup {JDict(k :> JList(l)) : k \in {"variations", "texts", "results", "items"},
                                 l \in {<<>>, <<NoCta>>, <<NoText>>}}
    \cup {JDict((k1 :> e1) @@ (k2 :> e2)) :
             k1 \in {"variations", "texts", "results", "items"},
             k2 \in {"variations", "texts", "results", "items"},
             e1 \in {JList(<<NoCta>>), JScalar},
             e2 \in {JList(<<Full>>), JList(<<>>)}}

\* The rows the first query of select_random_promo may return: up to
\* MaxOffers offers, numbered in order, with weights from Weights.
Weights == {1, 5, 10}

OfferLists ==
    UNION {{[i \in 1..n |-> [id |-> i, weight |-> w[i]]] : w \in [1..n -> Weights]} :
              n \in 0..MaxOffers}

\* The draws of random.uniform(0, total_weight): from 0 to total_weight in
\* steps of 1 / DrawScale, and one step above total_weight, which stands for
\* the draw of a total_weight that float() rounds up.
Draws(eligible_offers) ==
    IF eligible_offers = <<>> THEN {0}
    ELSE 0..(total_weight(eligible_offers) * DrawScale + 1)

\* selected, fell_back: history, the position of selected_offer and whether
\* the fallback of line 369 set it
PromoInputs ==
    UNION {{[pc |-> "input", eligible_offers |-> o, rand |-> r, unapproved |-> u,
             selected |-> 0, fell_back |-> FALSE, response |-> Unavailable("")] :
               r \in Draws(o), u \in {None} \cup {o[i].id : i \in 1..Len(o)}} :
              o \in OfferLists}

\* what an arbitrary operation given to _retry_with_backoff may do when it is
\* invoked for the at-th time
FuncOutcomes(at) ==
    {Ret(<<at>>)}
    \cup
    {Exc(cls, Msg("failed"), kw, at) :
        cls \in NonRetryable \cup {"OllamaTimeoutError", "OllamaAPIError", "Exception"},
        kw \in {{}, {"timeout"}, {"network"}, {"connection"}, {"5"}}}

----------------------------------------------------------------------------
(* The steps of a call                                                     *)

SetCall(c, k) == call' = [call EXCEPT ![c] = k]

\* func has returned or raised o in the loop of _retry_with_backoff
AfterInvocation(k, o) ==
    LET d == retry_body(k.attempt, o)
        k1 == [k EXCEPT !.invocations = @ + 1,
                        !.e = IF o.kind = "raise" THEN o ELSE @,
                        !.all_retryable = @ /\ SaidRetryable(o)] IN
    IF d.act = "sleep"
    THEN [k1 EXCEPT !.pc = "sleep", !.delay = d.delay]
    ELSE [k1 EXCEPT !.pc = "done", !.result = o]

\* Outcome recording a failure for every failed attempt, retried or not
Outcome_each_attempt(k, cb, t) ==
    IF k.entry = "generate" /\ k.pc = "done"
    THEN IF k.result.kind = "return"
         THEN [cb |-> record_success(cb),
               k |-> [k EXCEPT !.n_record_success = @ + 1]]
         ELSE IF k.result.cls \in BaseExceptions
         THEN [cb |-> cb, k |-> k]
         ELSE [cb |-> record_failure(cb, t),
               k |-> [k EXCEPT !.n_record_failure = @ + 1]]
    ELSE IF k.entry = "generate" /\ k.pc = "sleep"
    THEN [cb |-> record_failure(cb, t),
          k |-> [k EXCEPT !.n_record_failure = @ + 1]]
    ELSE [cb |-> cb, k |-> k]

\* Outcome not counting a malformed response or a rate limit as a failure
Outcome_skipping(k, cb, t) ==
    IF k.entry = "generate" /\ k.pc = "done"
    THEN IF k.result.kind = "return"
         THEN [cb |-> record_success(cb),
               k |-> [k EXCEPT !.n_record_success = @ + 1]]
         ELSE IF k.result.cls \in {"OllamaJSONParseError", "OllamaRateLimitError"}
                    \cup BaseExceptions
         THEN [cb |-> cb, k |-> k]
         ELSE [cb |-> record_failure(cb, t),
               k |-> [k EXCEPT !.n_record_failure = @ + 1]]
    ELSE [cb |-> cb, k |-> k]

\* Outcome with a handler that catches every exception, cancellation included
Outcome_catching_all(k, cb, t) ==
    IF k.entry = "generate" /\ k.pc = "done"
    THEN IF k.result.kind = "return"
         THEN [cb |-> record_success(cb),
               k |-> [k EXCEPT !.n_record_success = @ + 1]]
         ELSE [cb |-> record_failure(cb, t),
               k |-> [k EXCEPT !.n_record_failure = @ + 1]]
    ELSE [cb |-> cb, k |-> k]

\* lines 781-799: what generate_text_variations does with the breaker once
\* _retry_with_backoff has returned or raised; `except Exception` (line 794)
\* handles every exception but those of BaseExceptions
Outcome(k, cb, t) ==
    IF k.entry = "generate" /\ k.pc = "done"
    THEN IF k.result.kind = "return"
         THEN [cb |-> record_success(cb),
               k |-> [k EXCEPT !.n_record_success = @ + 1]]
         ELSE IF k.result.cls \in BaseExceptions
         THEN [cb |-> cb, k |-> k]
         ELSE [cb |-> record_failure(cb, t),
               k |-> [k EXCEPT !.n_record_failure = @ + 1]]
    ELSE [cb |-> cb, k |-> k]

\* generate_text_variations is called with one of requests on the service
\* whose breaker is cb: lines 646-688, up to the first await
StartOn(c, requests, cb) ==
    \E req \in requests :
       /\ call[c].pc = "idle"
       /\ LET k0 == [CallInit EXCEPT !.entry = "generate",
                                     !.fc0 = cb.failure_count,
                                     !.said_invalid = SaidInvalid(req),
                                     !.num_variations = req.num_variations]
              err == validate_request(req)
              gate == can_proceed(cb, now)
          IN IF err # ""
             THEN /\ SetCall(c, [k0 EXCEPT !.pc = "done",
                                           !.result = Exc("ValueError", Msg(err), {}, 0)])
                  /\ circuit_breaker' = cb
             ELSE /\ circuit_breaker' = gate.cb
                  /\ IF gate.ret
                     THEN SetCall(c, [k0 EXCEPT !.pc = "attempt", !.n_can_proceed = 1])
                     ELSE SetCall(c, [k0 EXCEPT
                            !.pc = "done", !.n_can_proceed = 1,
                            !.result = Exc("OllamaCircuitBreakerError",
                                           Msg("Circuit breaker is OPEN"), {}, 0)])

\* the same on the service every caller shares
StartWith(c, requests) ==
    /\ StartOn(c, requests, circuit_breaker)
    /\ UNCHANGED <<now, last, failRun, succRun, cancelled, selection, jobs>>

Start(c) == StartWith(c, Requests)

\* one invocation of _generate_text_internal by the retry loop, answered by
\* one of responses, and what follows it without suspension
GenerateAttemptWith(c, responses) ==
    \E resp \in responses :
       /\ call[c].pc = "attempt"
       /\ call[c].entry = "generate"
       /\ LET o == _generate_text_internal(resp, call[c].num_variations,
                                           call[c].invocations + 1)
              r == Outcome(AfterInvocation(call[c], o), circuit_breaker, now)
              items == IF resp.type = "content" /\ SaidWellFormed(resp.parsed)
                       THEN resp.parsed.items
                       ELSE <<>>
              open == IF circuit_breaker.state = OPEN THEN 1 ELSE 0
          IN /\ circuit_breaker' = r.cb
             /\ SetCall(c, [r.k EXCEPT !.delivered = items,
                                       !.open_invocations = @ + open])
       /\ UNCHANGED <<now, last, failRun, succRun, cancelled, selection, jobs>>

GenerateAttempt(c) == GenerateAttemptWith(c, Responses)

\* _retry_with_backoff is called directly around an arbitrary operation
RetryStart(c) ==
    /\ call[c].pc = "idle"
    /\ SetCall(c, [CallInit EXCEPT !.entry = "retry", !.pc = "attempt"])
    /\ UNCHANGED <<circuit_breaker, now, last, failRun, succRun, cancelled, selection, jobs>>

\* one invocation of that operation by the retry loop
RetryAttempt(c) ==
    \E o \in FuncOutcomes(call[c].invocations + 1) :
       /\ call[c].pc = "attempt"
       /\ call[c].entry = "retry"
       /\ SetCall(c, AfterInvocation(call[c], o))
       /\ UNCHANGED <<circuit_breaker, now, last, failRun, succRun, cancelled, selection, jobs>>

\* asyncio.sleep(delay) returns and the loop goes round (lines 523, 546-549)
Sleep(c) ==
    /\ call[c].pc = "sleep"
    /\ now + call[c].delay <= MaxTime
    /\ now' = now + call[c].delay
    /\ LET k1 == [call[c] EXCEPT !.sleeps = Append(@, call[c].delay),
                                 !.attempt = @ + 1]
           k2 == IF k1.attempt < max_retries
                 THEN [k1 EXCEPT !.pc = "attempt"]
                 ELSE [k1 EXCEPT !.pc = "done",
                                 !.result = Exc("OllamaAPIError",
                                                Msg("All retry attempts exhausted"), {}, 0)]
           r == Outcome(k2, circuit_breaker, now')
       IN /\ circuit_breaker' = r.cb
          /\ SetCall(c, r.k)
    /\ UNCHANGED <<last, failRun, succRun, cancelled, selection, jobs>>

\* The task running the call is cancelled while the call is suspended in
\* asyncio.sleep(delay) (line 546): the sleep raises CancelledError inside the
\* handler of line 532, which no except clause of _retry_with_backoff or of
\* generate_text_variations matches.  The part of the delay already slept is
\* not counted.
Cancel(c) ==
    /\ call[c].pc = "sleep"
    /\ cancelled < MaxCancelled
    /\ cancelled' = cancelled + 1
    /\ LET k1 == [call[c] EXCEPT !.pc = "done", !.result = CancelledError]
           r == Outcome(k1, circuit_breaker, now)
       IN /\ circuit_breaker' = r.cb
          /\ SetCall(c, r.k)
    /\ UNCHANGED <<now, last, failRun, succRun, selection, jobs>>

\* the caller has taken the value or the exception of a finished call
Return(c) ==
    /\ call[c].pc = "done"
    /\ SetCall(c, CallInit)
    /\ UNCHANGED <<circuit_breaker, now, last, failRun, succRun, cancelled, selection, jobs>>

----------------------------------------------------------------------------

\* _generate_text_internal on a content that spells parse.content, from the
\* extraction of line 861 on; parse.parsed records what json.loads yielded
Validate ==
    /\ parse.pc = "input"
    /\ LET variations == json_str(parse.fenced, parse.content) IN
       parse' = [parse EXCEPT
                   !.pc = "parsed",
                   !.parsed = variations,
                   !.out = _generate_text_internal(ChatContent(variations),
                                                   parse.num_variations, 1)]
    /\ UNCHANGED <<circuit_breaker, now, call, last, failRun, succRun, cancelled, promo, jobs>>

\* GET /api/v1/promo/select-random is served
Select ==
    /\ promo.pc = "input"
    /\ promo' = [promo EXCEPT
                   !.pc = "done",
                   !.response = select_random_promo(promo.eligible_offers, promo.rand,
                                                    promo.unapproved),
                   !.selected = IF promo.eligible_offers = <<>> THEN 0
                                ELSE selected_offer(promo.eligible_offers, promo.rand),
                   !.fell_back = /\ promo.eligible_offers # <<>>
                                 /\ walk(promo.eligible_offers, promo.rand, 1, 0) = 0]
    /\ UNCHANGED <<circuit_breaker, now, call, last, failRun, succRun, cancelled, parse, jobs>>

\* nothing parsed, nothing selected
NoParse == [pc |-> "none"]
NoPromo == [pc |-> "none"]

\* No text job yet.  failed counts the latest rows of promo_generation_jobs
\* that are all 'failed', completed_at is the completed_at of the latest row;
\* failed_before and in_time are what the job in hand found when it began: the
\* value of failed, and whether less than timeout had passed since
\* completed_at.
NoJobs == [failed |-> 0, completed_at |-> 0, failed_before |-> 0, in_time |-> FALSE]

Init ==
    /\ circuit_breaker = CircuitBreakerInit
    /\ now = 0
    /\ call = [c \in Callers |-> CallInit]
    /\ last = NoCall
    /\ failRun = 0
    /\ succRun = 0
    /\ cancelled = 0
    /\ parse = NoParse
    /\ promo = NoPromo
    /\ jobs = NoJobs

NextBreaker == RecordSuccess \/ RecordFailure \/ CanProceed \/ Tick

SpecBreaker == Init /\ [][NextBreaker]_vars

NextRetry ==
    \E c \in Callers : RetryStart(c) \/ RetryAttempt(c) \/ Sleep(c) \/ Return(c)

SpecRetry == Init /\ [][NextRetry]_vars

\* _retry_with_backoff where every invocation of the operation comes to an end
\* and every asyncio.sleep returns
SpecRetryFair ==
    /\ SpecRetry
    /\ \A c \in Callers : WF_vars(RetryAttempt(c)) /\ WF_vars(Sleep(c))

Next ==
    \/ \E c \in Callers : Start(c) \/ GenerateAttempt(c) \/ Sleep(c) \/ Return(c)
    \/ Tick

Spec == Init /\ [][Next]_vars

\* _generate_text_internal on any answer of ParseInputs
InitParse ==
    /\ circuit_breaker = CircuitBreakerInit
    /\ now = 0
    /\ call = [c \in Callers |-> CallInit]
    /\ last = NoCall
    /\ failRun = 0
    /\ succRun = 0
    /\ cancelled = 0
    /\ parse \in {[pc |-> "input", content |-> v, fenced |-> f, parsed |-> JInvalid,
                     num_variations |-> n, out |-> NoResult] :
                     v \in ParseInputs, f \in BOOLEAN, n \in {1, 3}}
    /\ promo = NoPromo
    /\ jobs = NoJobs

NextParse == Validate

SpecParse == InitParse /\ [][NextParse]_vars

\* select_random_promo on any rows, draw and loss of approval of PromoInputs
InitSelect ==
    /\ circuit_breaker = CircuitBreakerInit
    /\ now = 0
    /\ call = [c \in Callers |-> CallInit]
    /\ last = NoCall
    /\ failRun = 0
    /\ succRun = 0
    /\ cancelled = 0
    /\ parse = NoParse
    /\ promo \in PromoInputs
    /\ jobs = NoJobs

NextSelect == Select

SpecSelect == InitSelect /\ [][NextSelect]_vars

\* Two tasks calling generate_text_variations on one OllamaService.  A
\* coroutine runs until it awaits asyncio.sleep or ends, client.chat being a
\* blocking call: while one is about to invoke the model the other does not
\* move.  The model is down: it times out or answers with what is not JSON.
\* No call begins once failure_count has reached MaxFailureCount.
SharedCallers == {"c1", "c2"}

SharedResponses == {ChatError({"timeout"}), ChatContent(JInvalid)}

Running(c) == \A d \in SharedCallers \ {c} : call[d].pc # "attempt"

StartShared(c) ==
    /\ Running(c)
    /\ circuit_breaker.failure_count < MaxFailureCount
    /\ StartWith(c, {GoodRequest})

AttemptShared(c) == GenerateAttemptWith(c, SharedResponses)

WakeShared(c) == Running(c) /\ Sleep(c)

ReturnShared(c) == Running(c) /\ Return(c)

InitShared ==
    /\ circuit_breaker = CircuitBreakerInit
    /\ now = 0
    /\ call = [c \in SharedCallers |-> CallInit]
    /\ last = NoCall
    /\ failRun = 0
    /\ succRun = 0
    /\ cancelled = 0
    /\ parse = NoParse
    /\ promo = NoPromo
    /\ jobs = NoJobs

NextShared ==
    \E c \in SharedCallers :
       StartShared(c) \/ AttemptShared(c) \/ WakeShared(c) \/ ReturnShared(c)

SpecShared == InitShared /\ [][NextShared]_vars

\* generate_text_variations in a task that may be cancelled: a valid request,
\* and a model that times out, fails otherwise or answers well
CancelResponses ==
    {ChatError({"timeout"}), ChatError({}), ChatContent(JList(<<Full>>))}

StartCancellable(c) == StartWith(c, {GoodRequest})

AttemptCancellable(c) == GenerateAttemptWith(c, CancelResponses)

NextCancel ==
    \/ \E c \in Callers :
          \/ StartCancellable(c)
          \/ AttemptCancellable(c)
          \/ Sleep(c)
          \/ Cancel(c)
          \/ Return(c)
    \/ Tick

SpecCancel == Init /\ [][NextCancel]_vars

\* POST /api/v1/offers/{offer_id}/generate-text (src/app/main.py): requests
\* served one after another, for an offer that exists, by a model that times
\* out, fails otherwise or answers well.  No request begins once MaxFailedJobs
\* jobs in a row have failed.
EndpointResponses ==
    {ChatError({"timeout"}), ChatError({}), ChatContent(JList(<<Full>>))}

\* the handler up to the first suspension of generate_text_variations: the
\* job row is inserted, `ollama = OllamaService()` builds a service, and with
\* it a CircuitBreaker, of its own, and the call begins on that service
GenerateText(c) ==
    /\ jobs.failed < MaxFailedJobs
    /\ StartOn(c, {GoodRequest}, CircuitBreakerInit)
    /\ jobs' = [jobs EXCEPT !.failed_before = jobs.failed,
                            !.in_time = /\ jobs.failed > 0
                                        /\ now - jobs.completed_at < timeout]
    /\ UNCHANGED <<now, last, failRun, succRun, cancelled, selection>>

AttemptEndpoint(c) == GenerateAttemptWith(c, EndpointResponses)

\* the handler from the end of generate_text_variations on: the job row is
\* set to 'completed' when the call returned and to 'failed' by the handler
\* of `except Exception` when it raised
Respond(c) ==
    /\ call[c].pc = "done"
    /\ call[c].entry = "generate"
    /\ jobs' = [jobs EXCEPT
                  !.failed = IF call[c].result.kind = "return" THEN 0 ELSE @ + 1,
                  !.completed_at = now]
    /\ SetCall(c, CallInit)
    /\ UNCHANGED <<circuit_breaker, now, last, failRun, succRun, cancelled, selection>>

NextEndpoint ==
    \/ \E c \in Callers :
          \/ GenerateText(c)
          \/ AttemptEndpoint(c)
          \/ Sleep(c)
          \/ Respond(c)
    \/ Tick

SpecEndpoint == Init /\ [][NextEndpoint]_vars

----------------------------------------------------------------------------
(* Claims about the CircuitBreaker, checked under SpecBreaker              *)

\* C1: failure_threshold consecutive record_failure calls, the first made on a
\* CLOSED breaker and with no record_success in between, leave the breaker
\* OPEN; and a can_proceed call made right after them, less than timeout
\* seconds after the last failure, returns false and leaves it OPEN.
C1_ThresholdFailuresOpen ==
    /\ (last.op = "record_failure" /\ failRun >= failure_threshold)
          => circuit_breaker.state = OPEN
    /\ ( /\ last.op = "can_proceed"
         /\ last.prev = "record_failure"
         /\ failRun >= failure_threshold
         /\ WithinTimeout(last.pre, last.t) )
          => (~last.ret /\ circuit_breaker.state = OPEN)

\* the run of failures started on a fresh CLOSED breaker and the denied
\* can_proceed came timeout - 1 seconds after the last of them
C1_Witness ==
    /\ last.op = "can_proceed"
    /\ last.prev = "record_failure"
    /\ failRun >= failure_threshold
    /\ last.pre.failure_count = failure_threshold
    /\ last.t - last.pre.last_failure_time = timeout - 1
    /\ ~last.ret

\* C2: on an OPEN breaker, can_proceed called less than timeout seconds after
\* the last failure returns false and changes nothing; called at or after
\* timeout seconds it returns true and the breaker is HALF_OPEN with
\* success_count = 0.
C2_OpenGate ==
    (last.op = "can_proceed" /\ last.pre.state = OPEN /\ last.pre.last_failure_time # None)
      => IF last.t - last.pre.last_failure_time < timeout
         THEN ~last.ret /\ circuit_breaker = last.pre
         ELSE /\ last.ret
              /\ circuit_breaker.state = HALF_OPEN
              /\ circuit_breaker.success_count = 0

\* a can_proceed was denied on the OPEN breaker and the next one, exactly
\* timeout seconds after the last failure, was admitted
C2_Witness ==
    /\ last.op = "can_proceed"
    /\ last.prev = "can_proceed"
    /\ last.pre.state = OPEN
    /\ last.t - last.pre.last_failure_time = timeout
    /\ last.ret
    /\ circuit_breaker.state = HALF_OPEN

\* C3: success_threshold consecutive record_success calls, the first made in
\* HALF_OPEN, leave the breaker CLOSED with both counters 0; a record_failure
\* made in HALF_OPEN, whatever success_count was, leaves it OPEN with
\* success_count = 0.
C3_HalfOpenExits ==
    /\ (last.op = "record_success" /\ succRun >= success_threshold)
          => /\ circuit_breaker.state = CLOSED
             /\ circuit_breaker.failure_count = 0
             /\ circuit_breaker.success_count = 0
    /\ (last.op = "record_failure" /\ last.pre.state = HALF_OPEN)
          => /\ circuit_breaker.state = OPEN
             /\ circuit_breaker.success_count = 0

\* a failure recorded in HALF_OPEN after one success had been counted
C3_Witness ==
    /\ last.op = "record_failure"
    /\ last.pre.state = HALF_OPEN
    /\ last.pre.success_count = success_threshold - 1
    /\ circuit_breaker.state = OPEN

\* C5 as stated: state = OPEN exactly when failure_count >= failure_threshold
\* and less than timeout seconds have passed since last_failure_time.
C5_OpenIff ==
    (circuit_breaker.state = OPEN)
      <=> ( /\ circuit_breaker.failure_count >= failure_threshold
            /\ WithinTimeout(circuit_breaker, now) )

\* C5 amended: failure_count >= failure_threshold within timeout seconds of
\* the last failure implies state = OPEN, and an OPEN breaker has a
\* last_failure_time; the converse fails (OPEN persists past the timeout until
\* can_proceed is called, and a failure in HALF_OPEN reopens at any count).
C5_OpenIfCountAndRecent ==
    /\ ( /\ circuit_breaker.failure_count >= failure_threshold
         /\ WithinTimeout(circuit_breaker, now) )
          => circuit_breaker.state = OPEN
    /\ circuit_breaker.state = OPEN => circuit_breaker.last_failure_time # None

\* an OPEN breaker over the threshold, part of the way through its timeout
C5_Witness ==
    /\ circuit_breaker.state = OPEN
    /\ circuit_breaker.failure_count > failure_threshold
    /\ now - circuit_breaker.last_failure_time = timeout - 1

----------------------------------------------------------------------------
(* Claims about generate_text_variations, checked under Spec               *)

\* C4: a generate_text_variations call with a valid request, made while the
\* breaker is OPEN and less than timeout seconds after the last failure, ends
\* at once with OllamaCircuitBreakerError, has invoked the network operation
\* zero times and slept zero times, has called neither record_failure nor
\* record_success, and leaves every field of the breaker (and the clock) as
\* it was.
C4_DeniedCallTouchesNothing ==
    [][\A c \in Callers :
         ( /\ call[c].pc = "idle"
           /\ call'[c].entry = "generate"
           /\ call'[c].result.cls # "ValueError"
           /\ circuit_breaker.state = OPEN
           /\ WithinTimeout(circuit_breaker, now) )
         => /\ call'[c].pc = "done"
            /\ call'[c].result.kind = "raise"
            /\ call'[c].result.cls = "OllamaCircuitBreakerError"
            /\ call'[c].invocations = 0
            /\ call'[c].sleeps = <<>>
            /\ call'[c].n_record_failure = 0
            /\ call'[c].n_record_success = 0
            /\ circuit_breaker' = circuit_breaker
            /\ now' = now]_vars

\* a call denied timeout - 1 seconds after the failure that opened the breaker
C4_Witness ==
    \E c \in Callers :
       /\ call[c].pc = "done"
       /\ call[c].entry = "generate"
       /\ call[c].result.cls = "OllamaCircuitBreakerError"
       /\ call[c].invocations = 0
       /\ circuit_breaker.state = OPEN
       /\ now - circuit_breaker.last_failure_time = timeout - 1

\* C6: a generate_text_variations call that passed the gate and whose every
\* attempt raised a retryable error has made max_retries network attempts
\* and called record_failure exactly once: failure_count is one more than
\* when the call began, and it did not move while the call was retrying.
C6_OneFailurePerCall ==
    \A c \in Callers :
       (call[c].entry = "generate" /\ call[c].invocations >= 1 /\ call[c].all_retryable)
         => IF call[c].pc = "done"
            THEN /\ call[c].invocations = max_retries
                 /\ call[c].n_record_failure = 1
                 /\ call[c].n_record_success = 0
                 /\ circuit_breaker.failure_count = call[c].fc0 + 1
            ELSE /\ call[c].invocations < max_retries
                 /\ call[c].n_record_failure = 0
                 /\ circuit_breaker.failure_count = call[c].fc0

\* four attempts timed out on a breaker that already had failures counted
C6_Witness ==
    \E c \in Callers :
       /\ call[c].pc = "done"
       /\ call[c].entry = "generate"
       /\ call[c].all_retryable
       /\ call[c].invocations = max_retries
       /\ call[c].result.cls = "OllamaTimeoutError"
       /\ call[c].fc0 = 2
       /\ circuit_breaker.failure_count = 3

\* C10: when the first network attempt of a generate_text_variations call
\* raises a rate-limit or a parse error, the call is over with that one
\* attempt and no sleep, record_failure has been called exactly once, and the
\* error raised to the caller is that error.
C10_RateLimitParseFailOnce ==
    \A c \in Callers :
       ( /\ call[c].entry = "generate"
         /\ call[c].invocations = 1
         /\ call[c].e.cls \in {"OllamaRateLimitError", "OllamaJSONParseError"} )
         => /\ call[c].pc = "done"
            /\ call[c].result = call[c].e
            /\ call[c].sleeps = <<>>
            /\ call[c].n_record_failure = 1
            /\ call[c].n_record_success = 0
            /\ circuit_breaker.failure_count = call[c].fc0 + 1
            /\ circuit_breaker.last_failure_time = now

\* a parse error citing a variation, on the call that opens the breaker
C10_Witness ==
    \E c \in Callers :
       /\ call[c].pc = "done"
       /\ call[c].entry = "generate"
       /\ call[c].invocations = 1
       /\ call[c].result.cls = "OllamaJSONParseError"
       /\ call[c].result.msg.index = 1
       /\ call[c].n_record_failure = 1
       /\ circuit_breaker.state = OPEN
       /\ circuit_breaker.failure_count = failure_threshold

----------------------------------------------------------------------------
(* Claims about _retry_with_backoff, checked under SpecRetry               *)

\* C7: when every invocation raises a retryable error, _retry_with_backoff
\* invokes the operation exactly max_retries = 4 times, sleeps exactly 3
\* times, base_delay * 1, 2, 4 seconds in that order (none before the first
\* invocation, none after the fourth), and raises the fourth error.
C7_Backoff ==
    \A c \in Callers :
       (call[c].entry = "retry" /\ call[c].all_retryable)
         => /\ call[c].pc = "attempt" =>
                 /\ call[c].invocations < max_retries
                 /\ call[c].sleeps =
                      SubSeq(<<base_delay, 2 * base_delay, 4 * base_delay>>,
                             1, call[c].invocations)
            /\ call[c].pc = "sleep" =>
                 /\ call[c].invocations < max_retries
                 /\ Len(call[c].sleeps) = call[c].invocations - 1
            /\ (call[c].pc = "done" /\ call[c].invocations >= 1) =>
                 /\ call[c].invocations = max_retries
                 /\ call[c].sleeps = <<base_delay, 2 * base_delay, 4 * base_delay>>
                 /\ call[c].result = call[c].e
                 /\ call[c].result.at = max_retries

\* four retryable errors in a row, the last one raised
C7_Witness ==
    \E c \in Callers :
       /\ call[c].pc = "done"
       /\ call[c].entry = "retry"
       /\ call[c].all_retryable
       /\ call[c].invocations = max_retries
       /\ Len(call[c].sleeps) = max_retries - 1
       /\ call[c].result.at = max_retries

\* C8: when an invocation raises an error of a non-retryable class
\* (rate-limit, circuit-open, JSON-parse), whatever its message, the call is
\* over: that invocation is the last, no sleep follows it, and that error is
\* the one raised; on the first attempt this means one invocation, no sleep.
C8_NonRetryableStops ==
    \A c \in Callers :
       ( /\ call[c].entry = "retry"
         /\ call[c].e.kind = "raise"
         /\ call[c].e.cls \in SaidNonRetryable
         /\ call[c].e.at = call[c].invocations )
         => /\ call[c].pc = "done"
            /\ call[c].result = call[c].e
            /\ Len(call[c].sleeps) = call[c].invocations - 1

\* a circuit-open error whose message says "timeout", on the first attempt
C8_Witness ==
    \E c \in Callers :
       /\ call[c].pc = "done"
       /\ call[c].entry = "retry"
       /\ call[c].invocations = 1
       /\ call[c].sleeps = <<>>
       /\ call[c].result.cls = "OllamaCircuitBreakerError"
       /\ "timeout" \in call[c].result.kw

\* C9 as stated: an error in no non-retryable class and not recognised as
\* timeout, network, connection or 5xx, raised before the fourth attempt, is
\* retried: the call goes on to sleep and invoke the operation again.
C9_UnrecognisedRetried ==
    \A c \in Callers :
       ( /\ call[c].entry = "retry"
         /\ SaidUnrecognised(call[c].e)
         /\ call[c].e.at = call[c].invocations
         /\ call[c].invocations < max_retries )
         => call[c].pc \in {"sleep", "attempt"}

\* C9 amended: such an error is treated as non-retryable on any attempt: the
\* invocation that raised it is the last, no sleep follows it, and it is the
\* error raised.
C9_UnrecognisedStops ==
    \A c \in Callers :
       ( /\ call[c].entry = "retry"
         /\ SaidUnrecognised(call[c].e)
         /\ call[c].e.at = call[c].invocations )
         => /\ call[c].pc = "done"
            /\ call[c].result = call[c].e
            /\ Len(call[c].sleeps) = call[c].invocations - 1

\* an OllamaAPIError with no keyword in its message, raised by the second
\* attempt after one retry
C9_Witness ==
    \E c \in Callers :
       /\ call[c].pc = "done"
       /\ call[c].entry = "retry"
       /\ call[c].result.cls = "OllamaAPIError"
       /\ call[c].result.kw = {}
       /\ call[c].invocations = 2
       /\ call[c].sleeps = <<base_delay>>

----------------------------------------------------------------------------
(* Claims about generate_text_variations, continued                        *)

\* C11: a generate_text_variations call whose arguments break a constraint
\* (blank offer name, description or destination, tone or length outside the
\* enumeration, num_variations below 1 or above 30) ends at once with a
\* ValueError, without invoking the model, without calling can_proceed,
\* record_success or record_failure, and with every breaker field as it was,
\* whatever the breaker's state (an OPEN breaker whose timeout has elapsed
\* included, which stays OPEN).
C11_InvalidRequestLocal ==
    [][\A c \in Callers :
          ( /\ call[c].pc = "idle"
            /\ call'[c].entry = "generate"
            /\ call'[c].said_invalid )
          => ( /\ call'[c].pc = "done"
               /\ call'[c].result.kind = "raise"
               /\ call'[c].result.cls = "ValueError"
               /\ call'[c].invocations = 0
               /\ call'[c].n_can_proceed = 0
               /\ call'[c].n_record_success = 0
               /\ call'[c].n_record_failure = 0
               /\ circuit_breaker' = circuit_breaker )]_vars

\* an invalid request was refused while the breaker was OPEN with its timeout
\* elapsed, and the breaker is still OPEN
C11_Witness ==
    \E c \in Callers :
       /\ call[c].pc = "done"
       /\ call[c].said_invalid
       /\ call[c].result.cls = "ValueError"
       /\ call[c].n_can_proceed = 0
       /\ circuit_breaker.state = OPEN
       /\ now - circuit_breaker.last_failure_time >= timeout

\* C12: when a generate_text_variations call is cancelled while suspended in
\* the backoff sleep, the cancellation is what the caller gets, the call
\* invokes the model no more, and neither record_failure nor record_success is
\* called: every breaker field is as the cancelled sleep found it.
C12_CancelledInSleep ==
    [][\A c \in Callers :
          /\ ( /\ call[c].pc = "sleep"
                /\ call'[c].result.cls = "CancelledError" )
             => ( /\ call'[c].pc = "done"
                  /\ call'[c].result.kind = "raise"
                  /\ call'[c].invocations = call[c].invocations
                  /\ call'[c].n_record_failure = 0
                  /\ call'[c].n_record_success = 0
                  /\ circuit_breaker' = circuit_breaker )
          /\ ( /\ call[c].pc = "done"
                /\ call[c].result.cls = "CancelledError" )
             => call'[c] \in {call[c], CallInit}]_vars

\* a call was cancelled in its second sleep, on a breaker that had counted
\* failures of earlier calls
C12_Witness ==
    \E c \in Callers :
       /\ call[c].pc = "done"
       /\ call[c].result.cls = "CancelledError"
       /\ call[c].invocations = 2
       /\ call[c].n_record_failure = 0
       /\ circuit_breaker.failure_count = failure_threshold - 1

\* C13: when the model answers with a well-formed list of k items,
\* 1 <= k < num_variations, generate_text_variations returns those k items,
\* having called record_success exactly once and record_failure never; and a
\* generate_text_variations call that returns never returns an empty list.
C13_UnderDelivery ==
    \A c \in Callers :
       /\ ( /\ call[c].pc = "done"
             /\ call[c].entry = "generate"
             /\ Len(call[c].delivered) >= 1
             /\ Len(call[c].delivered) < call[c].num_variations )
          => ( /\ call[c].result.kind = "return"
               /\ Len(call[c].result.value) = Len(call[c].delivered)
               /\ \A i \in 1..Len(call[c].delivered) :
                     call[c].result.value[i].fields["text"]
                        = call[c].delivered[i].fields["text"]
               /\ call[c].n_record_success = 1
               /\ call[c].n_record_failure = 0 )
       /\ ( /\ call[c].pc = "done"
             /\ call[c].entry = "generate"
             /\ call[c].result.kind = "return" )
          => Len(call[c].result.value) >= 1

\* the model answered a request for 30 variations with two, after one retry
C13_Witness ==
    \E c \in Callers :
       /\ call[c].pc = "done"
       /\ call[c].result.kind = "return"
       /\ call[c].num_variations = 30
       /\ Len(call[c].delivered) = 2
       /\ Len(call[c].result.value) = 2
       /\ call[c].invocations = 2
       /\ call[c].n_record_success = 1

----------------------------------------------------------------------------
(* Claims about response validation, checked under SpecParse               *)

\* the positions of the elements of list v that are not records holding a
\* non-empty string as their text
Offending(v) == {i \in 1..Len(v.items) : ~SaidWellFormedItem(v.items[i])}

\* C14: validation accepts an answer only if it is, or wraps under an
\* envelope key, a non-empty list whose every element is a record with a
\* non-empty string as its text; and a list with an element whose text is
\* absent, empty or not a string is refused with an OllamaJSONParseError
\* citing the position of the first such element.
C14_TextNonEmptyString ==
    parse.pc = "parsed" =>
       /\ parse.out.kind = "return" =>
             \/ SaidWellFormed(parse.parsed)
             \/ /\ parse.parsed.t = "dict"
                /\ \E k \in DOMAIN parse.parsed.fields \cap {"variations", "texts", "results"} :
                      SaidWellFormed(parse.parsed.fields[k])
       /\ (parse.parsed.t = "list" /\ Offending(parse.parsed) # {}) =>
             /\ parse.out.kind = "raise"
             /\ parse.out.cls = "OllamaJSONParseError"
             /\ \A i \in Offending(parse.parsed) : parse.out.msg.index + 1 <= i
             /\ parse.out.msg.index + 1 \in Offending(parse.parsed)

\* C15: every item of a list that validation returns has a text and a cta;
\* an item that came without a cta has the cta "Learn More", an item that came
\* with one has it unchanged, and a list whose items all hold a text is
\* accepted whether or not they hold a cta.
C15_DefaultCta ==
    parse.pc = "parsed" =>
       /\ parse.out.kind = "return" =>
             \A i \in 1..Len(parse.out.value) :
                /\ {"text", "cta"} \subseteq DOMAIN parse.out.value[i].fields
                /\ parse.parsed.t = "list" =>
                      /\ Len(parse.out.value) = Len(parse.parsed.items)
                      /\ parse.out.value[i].fields["text"]
                            = parse.parsed.items[i].fields["text"]
                      /\ parse.out.value[i].fields["cta"]
                            = IF "cta" \in DOMAIN parse.parsed.items[i].fields
                              THEN parse.parsed.items[i].fields["cta"]
                              ELSE JStr("Learn More")
       /\ SaidWellFormed(parse.parsed) => parse.out.kind = "return"

\* a list of one item without a cta and one with a cta was accepted
C15_Witness ==
    /\ parse.pc = "parsed"
    /\ parse.out.kind = "return"
    /\ parse.parsed.t = "list"
    /\ Len(parse.parsed.items) = 2
    /\ "cta" \notin DOMAIN parse.parsed.items[1].fields
    /\ "cta" \in DOMAIN parse.parsed.items[2].fields
    /\ parse.out.value[1].fields["cta"] = JStr("Learn More")
    /\ parse.out.value[2].fields["cta"] = JStr("Go")

----------------------------------------------------------------------------
(* Claims about select_random_promo, checked under SpecSelect              *)

\* the sum of the weights of the first i offers
RECURSIVE WeightBefore(_, _)
WeightBefore(offers, i) ==
    IF i = 0 THEN 0 ELSE offers[i].weight + WeightBefore(offers, i - 1)

\* a draw r, 0 <= r < total, over offers that are there
InRange ==
    /\ promo.pc = "done"
    /\ promo.eligible_offers # <<>>
    /\ promo.rand < WeightBefore(promo.eligible_offers, Len(promo.eligible_offers))
                       * DrawScale

\* C16 as stated: a draw r with 0 <= r < total selects the offer i with
\* (w1 + ... + w(i-1)) <= r < (w1 + ... + wi); with weights 10, 5, 1 the draw
\* r = 10 selects offer 2 and r = 15 offer 3.
C16_HalfOpenIntervals ==
    InRange =>
       /\ WeightBefore(promo.eligible_offers, promo.selected - 1) * DrawScale
             <= promo.rand
       /\ promo.rand
             < WeightBefore(promo.eligible_offers, promo.selected) * DrawScale

\* C16, amended: a draw r with 0 <= r < total selects the offer i with
\* (w1 + ... + w(i-1)) < r <= (w1 + ... + wi), and r = 0 selects offer 1; with
\* weights 10, 5, 1 the draw r = 10 selects offer 1 and r = 15 offer 2.
C16_ClosedAbove ==
    InRange =>
       /\ promo.selected \in 1..Len(promo.eligible_offers)
       /\ \/ promo.rand = 0 /\ promo.selected = 1
          \/ WeightBefore(promo.eligible_offers, promo.selected - 1) * DrawScale
                < promo.rand
       /\ promo.rand
             <= WeightBefore(promo.eligible_offers, promo.selected) * DrawScale

\* with weights 10, 5, 1 the draw r = 15 selected offer 2
C16_Witness ==
    /\ InRange
    /\ Len(promo.eligible_offers) = 3
    /\ promo.eligible_offers[1].weight = 10
    /\ promo.eligible_offers[2].weight = 5
    /\ promo.eligible_offers[3].weight = 1
    /\ promo.rand = 15 * DrawScale
    /\ promo.selected = 2

\* C17 as stated: when the walk ends without selecting, the offer selected is
\* the last of the list.
C17_FallbackLast ==
    (promo.pc = "done" /\ promo.fell_back)
       => promo.selected = Len(promo.eligible_offers)

\* C17, amended: when the walk ends without selecting, the offer selected is
\* the first of the list, and the response is that offer unless it has no
\* approved text left.
C17_FallbackFirst ==
    (promo.pc = "done" /\ promo.fell_back)
       => /\ promo.selected = 1
          /\ promo.eligible_offers[1].id # promo.unapproved
                => /\ promo.response.status_code = 200
                   /\ promo.response.offer_id = promo.eligible_offers[1].id

\* the walk over three offers ended without selecting and the first was served
C17_Witness ==
    /\ promo.pc = "done"
    /\ promo.fell_back
    /\ Len(promo.eligible_offers) = 3
    /\ promo.selected = 1
    /\ promo.response.status_code = 200
    /\ promo.response.offer_id = promo.eligible_offers[1].id

\* C18: when no offer is eligible, or the offer selected has no approved
\* text when its variations are read, the response is a 503 that names no
\* offer and no variation.
C18_NothingToServe ==
    ( /\ promo.pc = "done"
      /\ \/ promo.eligible_offers = <<>>
         \/ promo.eligible_offers[promo.selected].id = promo.unapproved )
    => ( /\ promo.response.status_code = 503
         /\ promo.response.offer_id = None
         /\ promo.response.variation_id = None )

\* the second of two offers was selected and had no approved text left
C18_Witness ==
    /\ promo.pc = "done"
    /\ Len(promo.eligible_offers) = 2
    /\ promo.selected = 2
    /\ promo.unapproved = promo.eligible_offers[2].id
    /\ promo.response.status_code = 503
    /\ promo.response.offer_id = None

----------------------------------------------------------------------------
(* Claims about calls sharing one client                                   *)

\* C19: no generate_text_variations call invokes the model while the breaker
\* of its client is OPEN, the calls admitted before the breaker opened and
\* still in their retry loop included.
C19_NoInvocationWhileOpen ==
    \A c \in DOMAIN call : call[c].open_invocations = 0

\* C20: once a can_proceed call has admitted a request in HALF_OPEN, the
\* next can_proceed call, made before record_success or record_failure has
\* recorded the outcome of that request, returns false.
C20_OneTestRequest ==
    ( /\ last.op = "can_proceed"
      /\ last.prev = "can_proceed"
      /\ last.pre.state = HALF_OPEN
      /\ last.pre.success_count = 0 )
    => ~last.ret

----------------------------------------------------------------------------
(* Claims about the CircuitBreaker, continued (SpecBreaker)                *)

\* C22: a record_failure call on an OPEN breaker sets last_failure_time to
\* the time of the call and changes nothing else: the state stays OPEN and
\* failure_count and success_count are what they were.
C22_FailureWhileOpen ==
    (last.op = "record_failure" /\ last.pre.state = OPEN)
    => ( /\ circuit_breaker.state = OPEN
         /\ circuit_breaker.last_failure_time = last.t
         /\ circuit_breaker.failure_count = last.pre.failure_count
         /\ circuit_breaker.success_count = last.pre.success_count )

\* C23: right after the can_proceed call that moves an OPEN breaker to
\* HALF_OPEN, failure_count is 0.
C23_HalfOpenResetsFailures ==
    ( /\ last.op = "can_proceed"
      /\ last.pre.state = OPEN
      /\ circuit_breaker.state = HALF_OPEN )
    => circuit_breaker.failure_count = 0

\* C27: whenever the breaker is CLOSED, failure_count is below
\* failure_threshold.
C27_ClosedBelowThreshold ==
    circuit_breaker.state = CLOSED
       => circuit_breaker.failure_count < failure_threshold

\* a CLOSED breaker one failure short of opening
C27_Witness ==
    /\ circuit_breaker.state = CLOSED
    /\ circuit_breaker.failure_count = failure_threshold - 1
    /\ last.op = "record_failure"

\* C28: success_count is above 0 only in HALF_OPEN, and between two
\* operations it is always below success_threshold.
C28_SuccessCountHalfOpenOnly ==
    /\ circuit_breaker.success_count > 0 => circuit_breaker.state = HALF_OPEN
    /\ circuit_breaker.success_count < success_threshold

\* the breaker has closed again after success_threshold successes in
\* HALF_OPEN, success_count back at 0
C28_Witness ==
    /\ last.op = "record_success"
    /\ last.pre.state = HALF_OPEN
    /\ last.pre.success_count = success_threshold - 1
    /\ circuit_breaker.state = CLOSED
    /\ circuit_breaker.success_count = 0

\* C24: a record_success call on a CLOSED breaker leaves it CLOSED with
\* failure_count 0, and a CLOSED breaker is left CLOSED by every call but the
\* record_failure that ends a run of failure_threshold consecutive failures
\* with no success among them: outcomes whose runs of failures are all
\* shorter than failure_threshold never open it.
C24_OpensOnlyOnFullRun ==
    /\ []( (last.op = "record_success" /\ last.pre.state = CLOSED)
              => ( /\ circuit_breaker.state = CLOSED
                   /\ circuit_breaker.failure_count = 0 ) )
    /\ [][ (circuit_breaker.state = CLOSED /\ circuit_breaker'.state # CLOSED)
              => ( /\ last'.op = "record_failure"
                   /\ failRun' >= failure_threshold ) ]_vars

\* the breaker is CLOSED after failure_threshold failures or more, a success
\* having cut them into shorter runs
C24_Witness ==
    /\ circuit_breaker.state = CLOSED
    /\ last.op = "record_failure"
    /\ last.failures >= failure_threshold
    /\ failRun < failure_threshold

----------------------------------------------------------------------------
(* Claims about response validation, continued (SpecParse)                 *)

\* the first of the envelope keys that record v holds, "" when it holds none
SaidEnvelopeKey(v) ==
    IF "variations" \in DOMAIN v.fields THEN "variations"
    ELSE IF "texts" \in DOMAIN v.fields THEN "texts"
    ELSE IF "results" \in DOMAIN v.fields THEN "results"
    ELSE ""

\* C25: when json.loads yields a record that holds one of the keys
\* 'variations', 'texts', 'results', the outcome is the outcome of validating
\* the value under the first of them, in that order, as if it had been the
\* answer; a record that holds none of them is refused with an
\* OllamaJSONParseError.
C25_EnvelopeUnwrapped ==
    (parse.pc = "parsed" /\ parse.parsed.t = "dict") =>
       IF SaidEnvelopeKey(parse.parsed) # ""
       THEN parse.out =
               _generate_text_internal(
                   ChatContent(parse.parsed.fields[SaidEnvelopeKey(parse.parsed)]),
                   parse.num_variations, 1)
       ELSE /\ parse.out.kind = "raise"
            /\ parse.out.cls = "OllamaJSONParseError"

\* a fenced record holding 'texts' and 'variations' gave the item under
\* 'variations'
C25_Witness ==
    /\ parse.pc = "parsed"
    /\ parse.parsed.t = "dict"
    /\ DOMAIN parse.parsed.fields = {"texts", "variations"}
    /\ parse.parsed.fields["texts"] = JList(<<NoCta>>)
    /\ parse.parsed.fields["variations"] = JList(<<Full>>)
    /\ parse.out.kind = "return"
    /\ parse.out.value = <<Full>>

----------------------------------------------------------------------------
(* Claims about select_random_promo, continued (SpecSelect)                *)

\* C29: over a list of offers that is not empty, a draw r with
\* 0 <= r <= total selects an offer of the list in the walk itself, the
\* fallback not being taken; and every offer of the list is the one the walk
\* selects for some such draw.
C29_WalkAlwaysSelects ==
    (promo.pc = "done" /\ promo.eligible_offers # <<>>) =>
       LET total == WeightBefore(promo.eligible_offers, Len(promo.eligible_offers)) IN
       /\ promo.rand <= total * DrawScale
             => ( /\ ~promo.fell_back
                  /\ promo.selected \in 1..Len(promo.eligible_offers) )
       /\ \A i \in 1..Len(promo.eligible_offers) :
             \E r \in 0..(total * DrawScale) :
                walk(promo.eligible_offers, r, 1, 0) = i

\* the draw r = total selected the last of three offers in the walk
C29_Witness ==
    /\ promo.pc = "done"
    /\ Len(promo.eligible_offers) = 3
    /\ promo.rand = WeightBefore(promo.eligible_offers, 3) * DrawScale
    /\ promo.selected = 3
    /\ ~promo.fell_back

----------------------------------------------------------------------------
(* Claims about _retry_with_backoff, continued (SpecRetryFair)             *)

\* the seconds a call sleeps at most: base_delay * (1 + 2 + ... )
LongestBackoff == base_delay * (Pow2(max_retries - 1) - 1)

\* C30: a _retry_with_backoff call invokes the operation max_retries (4)
\* times at most and comes to an end; it returns the value of its last
\* invocation, the first that succeeded, or raises the error that its last
\* invocation raised, never the "All retry attempts exhausted" error of the
\* line after the loop; and it invokes nothing once it has ended.
C30_RetryTerminates ==
    /\ [](\A c \in Callers :
            /\ call[c].invocations <= max_retries
            /\ (call[c].pc = "done" /\ call[c].entry = "retry") =>
                  /\ call[c].invocations >= 1
                  /\ call[c].result.kind = "return"
                        => call[c].result.value = <<call[c].invocations>>
                  /\ call[c].result.kind = "raise"
                        => /\ call[c].result.at = call[c].invocations
                           /\ call[c].result.msg.text # "All retry attempts exhausted")
    /\ [][\A c \in Callers :
             call[c].pc = "done" => call'[c] \in {call[c], CallInit}]_vars
    /\ \A c \in Callers :
          (call[c].pc = "attempt" /\ now + LongestBackoff <= MaxTime)
             ~> (call[c].pc = "done")

\* four invocations failed with a retryable error and the call raised the
\* fourth
C30_Witness ==
    \E c \in Callers :
       /\ call[c].pc = "done"
       /\ call[c].entry = "retry"
       /\ call[c].invocations = max_retries
       /\ call[c].result.kind = "raise"
       /\ call[c].result.at = max_retries
       /\ call[c].sleeps = <<1, 2, 4>>

----------------------------------------------------------------------------
(* Claims about generate_text_variations, continued (Spec)                 *)

\* C26: a generate_text_variations call that was let through by validation
\* and by can_proceed, and was not cancelled, has recorded nothing while it
\* is under way and exactly one outcome when it ends: record_success once
\* and record_failure never when it returns, failure_count then being 0
\* however many attempts failed before; record_failure once and
\* record_success never when it raises.
C26_OneOutcomePerCall ==
    \A c \in Callers :
       ( /\ call[c].entry = "generate"
         /\ call[c].invocations >= 1
         /\ call[c].result.cls # "CancelledError" )
       => IF call[c].pc # "done"
          THEN call[c].n_record_success = 0 /\ call[c].n_record_failure = 0
          ELSE IF call[c].result.kind = "return"
          THEN /\ call[c].n_record_success = 1
               /\ call[c].n_record_failure = 0
               /\ circuit_breaker.failure_count = 0
          ELSE /\ call[c].n_record_failure = 1
               /\ call[c].n_record_success = 0

\* a call returned items at its third attempt, on a breaker that had counted
\* failures of earlier calls
C26_Witness ==
    \E c \in Callers :
       /\ call[c].pc = "done"
       /\ call[c].entry = "generate"
       /\ call[c].result.kind = "return"
       /\ call[c].invocations = 3
       /\ call[c].fc0 >= 1
       /\ call[c].n_record_success = 1
       /\ call[c].n_record_failure = 0
       /\ circuit_breaker.failure_count = 0

----------------------------------------------------------------------------
(* Claims about the generate-text endpoint, checked under SpecEndpoint     *)

\* C21: at the generate-text endpoint the breaker state carries over from one
\* request to the next: a request that begins when the failure_threshold
\* latest jobs have all failed, less than timeout seconds after the last of
\* them, never invokes the model and ends with OllamaCircuitBreakerError.
C21_BreakerCarriesOver ==
    \A c \in Callers :
       ( /\ call[c].entry = "generate"
         /\ jobs.failed_before >= failure_threshold
         /\ jobs.in_time )
       => /\ call[c].invocations = 0
          /\ call[c].pc = "done"
          /\ call[c].result.cls = "OllamaCircuitBreakerError"

====
